---------------------------- MODULE Spec2Model ----------------------------
(***************************************************************************)
(* A model of src/src/main.rs: the command-line client that resolves a     *)
(* repository identity, builds a query request and sends it to the         *)
(* code-intelligence service.                                              *)
(*                                                                         *)
(* Strings the program takes apart or puts together (remote URLs,          *)
(* repository paths, repo ids, the existence-check URL) are sequences of   *)
(* one-character strings.  Strings the program only passes along (tokens,  *)
(* response bodies, the prompt) are TLA+ strings.                          *)
(*                                                                         *)
(* Three specifications share the variables:                               *)
(*   Spec         one run of main()                                        *)
(*   ClientSpec   the three GreptileClient operations called on a client   *)
(*   RequestSpec  the GreptileQueryRequest constructors and push_message   *)
(***************************************************************************)
EXTENDS Integers, Sequences, FiniteSets, TLC

VARIABLES
    pc,          \* position of main(), or the phase of the other specifications
    cli,         \* Cli.repo_url: None or the positional argument
    git,         \* what git2 finds in "."
    env,         \* the two environment variables
    repository,  \* main's local `repository`
    repo,        \* main's local `repo`
    repo_id,     \* main's local `repo_id`
    greptile,    \* the GreptileClient
    req,         \* the GreptileQueryRequest
    prev_req,    \* the request before the last constructor or push_message
    pushed,      \* the message handed to the last push_message
    built_by,    \* which constructor made req
    uuids,       \* how many Uuid::new_v4() values were drawn
    sent,        \* every HTTP request issued, in order
    inflight,    \* HTTP requests issued and not yet answered
    calls,       \* ClientSpec: the client operations called, each with its outcome
    ret,         \* what main() or the last operation returned
    printed      \* what termimad::print_text was given

vars == <<pc, cli, git, env, repository, repo, repo_id, greptile, req, prev_req,
          pushed, built_by, uuids, sent, inflight, calls, ret, printed>>

\* Option<T>
NoneV == [some |-> FALSE]

Some(v) == [some |-> TRUE, val |-> v]

\* an unset environment variable; nothing printed or built yet
None == "None"

----------------------------------------------------------------------------
(* Bounds *)

\* most messages a request holds
MaxMessages == 3
\* most messages handed to with_messages
MaxInitial == 2
\* most client operations called in one ClientSpec behaviour
MaxCalls == 2

----------------------------------------------------------------------------
(* String literals of the source, as character sequences *)

S_http == <<"h","t","t","p">>
S_s == <<"s">>
S_colon_slashes == <<":","/","/">>
S_www == <<"w","w","w",".">>
S_github_com_slash == <<"g","i","t","h","u","b",".","c","o","m","/">>
S_dot_git == <<".","g","i","t">>
S_github == <<"g","i","t","h","u","b">>
S_main == <<"m","a","i","n">>
S_colon == <<":">>
S_slash == <<"/">>

\* [\w.-] over the alphabet of the model: \w is a letter, a digit or "_"
WordChars ==
    {"a","b","c","d","e","f","g","h","i","j","k","l","m","n","o","p","q","r",
     "s","t","u","v","w","x","y","z","0","1","2","3","4","5","6","7","8","9","_"}

SegmentChars == WordChars \cup {".", "-"}

----------------------------------------------------------------------------
(* Result<T, Box<dyn Error>> and a panic *)

Ok(v) == [kind |-> "Ok", val |-> v]

\* a boxed error: the crate or type it comes from and the text it carries
Err(source, text) == [kind |-> "Err", source |-> source, text |-> text]

Panic(what) == [kind |-> "Panic", what |-> what]

----------------------------------------------------------------------------
(* The regex of get_git_repo, matched as the regex crate matches it:       *)
(* unanchored, leftmost match, greedy repetitions with backtracking.       *)

NoMatch == [matched |-> FALSE]

LitAt(s, p, lit) ==
    /\ p >= 1
    /\ p + Len(lit) - 1 <= Len(s)
    /\ \A k \in 1..Len(lit) : s[p + k - 1] = lit[k]

RECURSIVE RunLen(_, _)
\* the number of consecutive [\w.-] characters of s from position p on
RunLen(s, p) ==
    IF p <= Len(s) /\ s[p] \in SegmentChars THEN 1 + RunLen(s, p + 1) ELSE 0

Greatest(S) == CHOOSE k \in S : \A j \in S : j <= k

Least(S) == CHOOSE k \in S : \A j \in S : k <= j

\* a first alternative, and the second when the first fails
OrElse(first, second) == IF first.matched THEN first ELSE second

\* the lengths [\w.-]+ may take at q with \.git right after it
NameLens(s, q) ==
    {k2 \in 1..RunLen(s, q) : LitAt(s, q + k2, S_dot_git)}

\* the lengths [\w.-]+ may take at p with \/ right after it and a name after that
OwnerLens(s, p) ==
    {k1 \in 1..RunLen(s, p) :
        LitAt(s, p + k1, S_slash) /\ NameLens(s, p + k1 + 1) # {}}

\* the capture group's bounds and the match's end, both repetitions chosen
PathMatch(s, p, k1, k2) ==
    [matched |-> TRUE, g1 |-> <<p, p + k1 + k2>>,
     end |-> p + k1 + 1 + k2 + Len(S_dot_git) - 1]

\* the match whose first repetition takes k1 characters
PathWithOwner(s, p, k1) ==
    PathMatch(s, p, k1, Greatest(NameLens(s, p + k1 + 1)))

\* ([\w.-]+\/[\w.-]+)\.git at p: each repetition takes the most it can
MatchPath(s, p) ==
    IF OwnerLens(s, p) = {} THEN NoMatch
    ELSE PathWithOwner(s, p, Greatest(OwnerLens(s, p)))

\* github\.com\/ and the rest
MatchHost(s, p) ==
    IF LitAt(s, p, S_github_com_slash)
    THEN MatchPath(s, p + Len(S_github_com_slash))
    ELSE NoMatch

\* (?:www\.)? and the rest: with the group first, then without it
MatchWww(s, p) ==
    OrElse(IF LitAt(s, p, S_www) THEN MatchHost(s, p + Len(S_www)) ELSE NoMatch,
           MatchHost(s, p))

\* :\/\/ and the rest
MatchSlashes(s, p) ==
    IF LitAt(s, p, S_colon_slashes)
    THEN MatchWww(s, p + Len(S_colon_slashes))
    ELSE NoMatch

\* the whole match from its start i and the match m of what follows http
WholeMatch(i, m) ==
    IF m.matched THEN [matched |-> TRUE, g0 |-> <<i, m.end>>, g1 |-> m.g1]
    ELSE NoMatch

\* https? and the rest, the match starting at i: with the s first, then without
MatchAt(s, i) ==
    IF ~LitAt(s, i, S_http) THEN NoMatch
    ELSE WholeMatch(i,
            OrElse(IF LitAt(s, i + Len(S_http), S_s)
                   THEN MatchSlashes(s, i + Len(S_http) + 1)
                   ELSE NoMatch,
                   MatchSlashes(s, i + Len(S_http))))

MatchStarts(s) == {i \in 1..Len(s) : MatchAt(s, i).matched}

\* Regex::captures: the leftmost match, or no captures
Captures(s) ==
    IF MatchStarts(s) = {} THEN NoMatch ELSE MatchAt(s, Least(MatchStarts(s)))

\* Captures::get(n).unwrap().as_str() for a match: group 0 is the whole match
CapsGet(s, caps, n) ==
    IF n = 0 THEN SubSeq(s, caps.g0[1], caps.g0[2])
             ELSE SubSeq(s, caps.g1[1], caps.g1[2])

\* the group get_git_repo returns (line 66)
ReturnedGroup == 0

\* lines 64-66: captures(..).unwrap(), then get(0).unwrap()
UnwrapCaptures(url, caps) ==
    IF ~caps.matched THEN Panic("unwrap on None")
    ELSE Ok(CapsGet(url, caps, ReturnedGroup))

get_git_repo(g) ==
    IF g.state = "no_repo" THEN Err("git2", "open")
    ELSE IF g.state = "no_remote" THEN Err("git2", "find_remote")
    ELSE IF g.state = "no_url"
         THEN Err("message", "Could not find remote URL for origin remote")
    ELSE UnwrapCaptures(g.url, Captures(g.url))

----------------------------------------------------------------------------
(* The data model *)

Roles == {"User", "System", "Assistant"}

GreptileRepository_new(remote, branch, repo_path) ==
    [remote |-> remote, branch |-> branch, repository |-> repo_path]

\* format!("{}:{}:{}", remote, branch, repository)
as_repo_id(self) ==
    self.remote \o S_colon \o self.branch \o S_colon \o self.repository

\* Uuid::new_v4() as the n-th value drawn: every draw is a new value
Uuid_new_v4(n) == n + 1

GreptileMessage_user(content, id) ==
    [id |-> id, content |-> content, role |-> "User"]

GreptileMessage_system(content, id) ==
    [id |-> id, content |-> content, role |-> "System"]

GreptileMessage_assistant(content, id) ==
    [id |-> id, content |-> content, role |-> "Assistant"]

\* new() with the repository left out of the request
GreptileQueryRequest_new_no_repository(repo_value, message) ==
    [messages |-> <<message>>, repositories |-> <<>>,
     session_id |-> "", stream |-> FALSE, genius |-> FALSE]

GreptileQueryRequest_new(repo_value, message) ==
    [messages |-> <<message>>, repositories |-> <<repo_value>>,
     session_id |-> "", stream |-> FALSE, genius |-> FALSE]

GreptileQueryRequest_with_messages(repo_value, messages) ==
    [messages |-> messages, repositories |-> <<repo_value>>,
     session_id |-> "", stream |-> FALSE, genius |-> FALSE]

\* push_message putting the message first instead of last
push_message_front(self, message) ==
    [self EXCEPT !.messages = <<message>> \o @]

push_message(self, message) ==
    [self EXCEPT !.messages = Append(@, message)]

\* impl From<GreptileRepository> for GreptileIndexRequest
GreptileIndexRequest_from(value) ==
    [remote |-> value.remote, repository |-> value.repository,
     branch |-> value.branch, reload |-> TRUE, notify |-> TRUE]

\* impl Display for Role
Role_fmt(role) ==
    CASE role = "User" -> "user"
      [] role = "System" -> "system"
      [] role = "Assistant" -> "assistant"

JsonNull == "null"

\* serde's Serialize of the untagged enum Role: a unit variant of an untagged
\* enum is written as the unit value, which JSON renders as null
Role_to_json(role) == JsonNull

GreptileMessage_to_json(m) ==
    [id |-> m.id, content |-> m.content, role |-> Role_to_json(m.role)]

\* serde's Serialize of GreptileQueryRequest, rename_all = "camelCase"
GreptileQueryRequest_to_json(r) ==
    [messages |-> [i \in 1..Len(r.messages) |-> GreptileMessage_to_json(r.messages[i])],
     repositories |-> r.repositories,
     sessionId |-> r.session_id, stream |-> r.stream, genius |-> r.genius]

----------------------------------------------------------------------------
(* The API client *)

GreptileClient_new(github_token, greptile_api_token) ==
    [github_token |-> github_token, greptile_api_token |-> greptile_api_token]

\* from_env reading the second variable with a default instead of the ?
from_env_second_defaulted(e) ==
    IF e.GITHUB_ACCESS_TOKEN = None THEN Err("VarError", "NotPresent")
    ELSE Ok([github_token |-> e.GITHUB_ACCESS_TOKEN,
             greptile_api_token |-> e.GREPTILE_API_TOKEN])

\* std::env::var of an unset variable: VarError::NotPresent, which does not
\* carry the variable's name
from_env(e) ==
    IF e.GITHUB_ACCESS_TOKEN = None THEN Err("VarError", "NotPresent")
    ELSE IF e.GREPTILE_API_TOKEN = None THEN Err("VarError", "NotPresent")
    ELSE Ok([github_token |-> e.GITHUB_ACCESS_TOKEN,
             greptile_api_token |-> e.GREPTILE_API_TOKEN])

\* the URL literal of check_repo_exists (line 96)
S_repositories_url ==
    <<"h","t","t","p","s",":","/","/","a","p","i",".","g","r","e","p","t","i","l",
      "e",".","c","o","m","/","v","2","/","r","e","p","o","s","i","t","o","r","i",
      "e","s","/">>

S_hardcoded_id ==
    <<"g","i","t","h","u","b","%","2","5","3","A","m","a","i","n","%","2","5","3",
      "A","s","h","u","t","t","l","e","-","h","q","%","2","5","2","F","z","e","r",
      "o","-","t","o","-","p","r","o","d","u","c","t","i","o","n","-","n","e","w",
      "s","l","e","t","t","e","r","-","a","p","i">>

\* RequestBuilder::bearer_auth
bearer_auth(token) == <<"Authorization", <<"Bearer", token>>>>

NoBody == "NoBody"

\* the request check_repo_exists issues (lines 96-101): repo_id is not used
CheckRepoExistsRequest(self, id) ==
    [method |-> "GET",
     url |-> S_repositories_url \o S_hardcoded_id,
     headers |-> {bearer_auth(self.greptile_api_token)},
     json |-> NoBody]

\* the request index_repo issues (lines 116-123)
IndexRepoRequest(self, r) ==
    [method |-> "POST",
     url |-> "https://api.greptile.com/v2/repositories",
     headers |-> {bearer_auth(self.greptile_api_token),
                  <<"Content-Type", "application/json">>,
                  <<"X-Github-Token", self.github_token>>},
     json |-> r]

\* query_repo without the X-Github-Token header
QueryRepoRequest_no_github_token(self, r) ==
    [method |-> "POST",
     url |-> "https://api.greptile.com/v2/query",
     headers |-> {bearer_auth(self.greptile_api_token),
                  <<"Content-Type", "application/json">>},
     json |-> GreptileQueryRequest_to_json(r)]

\* the request query_repo issues (lines 137-143)
QueryRepoRequest(self, r) ==
    [method |-> "POST",
     url |-> "https://api.greptile.com/v2/query",
     headers |-> {bearer_auth(self.greptile_api_token),
                  <<"Content-Type", "application/json">>,
                  <<"X-Github-Token", self.github_token>>},
     json |-> GreptileQueryRequest_to_json(r)]

(* What the network gives back to one request: send() fails, or a response   *)
(* with a status whose body text() reads or fails to read.                  *)
BodyError == "BodyError"

Statuses == {200, 201, 404}

Bodies == {"answer", "rejected"}

Outcomes ==
    {[kind |-> "send_err"]} \cup
    [kind : {"response"}, status : Statuses, body : Bodies \cup {BodyError}]

\* check_repo_exists turning a failed send() into "does not exist"
CheckRepoExistsResult_degrading(o) ==
    IF o.kind = "send_err" THEN Ok(FALSE)
    ELSE IF o.status # 200 THEN Ok(FALSE)
    ELSE Ok(TRUE)

\* check_repo_exists after send().await (lines 102-109)
CheckRepoExistsResult(o) ==
    IF o.kind = "send_err" THEN Err("reqwest", "send")
    ELSE IF o.status # 200 THEN Ok(FALSE)
    ELSE Ok(TRUE)

\* index_repo after send().await (lines 124-130)
IndexRepoResult(o) ==
    IF o.kind = "send_err" THEN Err("reqwest", "send")
    ELSE IF o.status # 200
         THEN IF o.body = BodyError THEN Panic("unwrap on Err")
              ELSE Err("message", o.body)
    ELSE Ok("unit")

\* query_repo after send().await (lines 145-149): the status is not read
QueryRepoResult(o) ==
    IF o.kind = "send_err" THEN Err("reqwest", "send")
    ELSE IF o.body = BodyError THEN Err("reqwest", "text")
    ELSE Ok(o.body)

----------------------------------------------------------------------------
(* The inputs of a run of main() *)

S_acme == <<"a","c","m","e">>
S_widgets == <<"w","i","d","g","e","t","s">>
S_x_1 == <<"x","-","1">>
S_gitlab_com == <<"g","i","t","l","a","b",".","c","o","m">>
S_github_com == <<"g","i","t","h","u","b",".","c","o","m">>
S_git_at == <<"g","i","t","@">>
S_git_plus == <<"g","i","t","+">>
S_tree == <<"/","t","r","e","e">>

\* the positional argument, when given
ExplicitArgs == {S_acme \o S_slash \o S_widgets, S_widgets}

UrlLeads == {<<>>, S_git_plus}

UrlSchemes ==
    {S_http \o S_s \o S_colon_slashes, S_http \o S_colon_slashes, S_git_at}

UrlWww == {<<>>, S_www}

UrlHosts == {S_github_com, S_gitlab_com}

UrlSeparators == {S_slash, S_colon}

UrlOwners == {S_acme}

UrlNames == {S_widgets, S_x_1}

UrlTails == {S_dot_git, <<>>, S_dot_git \o S_tree}

\* the URLs the origin remote may have
OriginUrls ==
    {lead \o scheme \o www \o host \o sep \o owner \o S_slash \o name \o tail :
        lead \in UrlLeads, scheme \in UrlSchemes, www \in UrlWww,
        host \in UrlHosts, sep \in UrlSeparators, owner \in UrlOwners,
        name \in UrlNames, tail \in UrlTails}

\* what Repository::open("."), find_remote("origin") and Remote::url() find
GitStates ==
    {[state |-> "no_repo"], [state |-> "no_remote"], [state |-> "no_url"]}
    \cup [state : {"url"}, url : OriginUrls]

GithubTokens == {"gh_a", "gh_b"}

GreptileTokens == {"gr_a", "gr_b"}

Envs ==
    [GITHUB_ACCESS_TOKEN : {None, "gh_a"}, GREPTILE_API_TOKEN : {None, "gr_a"}]

PROMPT == "PROMPT"

----------------------------------------------------------------------------
(* main() *)

\* the variables main() does not use
MainUnused == <<prev_req, pushed, built_by, calls>>

Init ==
    /\ pc = "start"
    /\ cli \in {NoneV} \cup {Some(a) : a \in ExplicitArgs}
    /\ git \in GitStates
    /\ env \in Envs
    /\ repository = <<>>
    /\ repo = NoneV
    /\ repo_id = <<>>
    /\ greptile = NoneV
    /\ req = NoneV
    /\ prev_req = NoneV
    /\ pushed = NoneV
    /\ built_by = None
    /\ uuids = 0
    /\ sent = <<>>
    /\ inflight = 0
    /\ calls = <<>>
    /\ ret = NoneV
    /\ printed = None

\* lines 19-26, the explicit argument
Main_UseArgument ==
    /\ pc = "start"
    /\ cli.some
    /\ repository' = cli.val
    /\ pc' = "resolved"
    /\ UNCHANGED <<cli, git, env, repo, repo_id, greptile, req, uuids, sent,
                   inflight, ret, printed, MainUnused>>

\* lines 19-26, get_git_repo()?
Main_GetGitRepo ==
    /\ pc = "start"
    /\ ~cli.some
    /\ \E r \in {get_git_repo(git)} :
           \/ /\ r.kind = "Ok"
              /\ repository' = r.val
              /\ pc' = "resolved"
              /\ ret' = ret
           \/ /\ r.kind = "Err"
              /\ pc' = "failed"
              /\ ret' = r
              /\ repository' = repository
           \/ /\ r.kind = "Panic"
              /\ pc' = "panicked"
              /\ ret' = r
              /\ repository' = repository
    /\ UNCHANGED <<cli, git, env, repo, repo_id, greptile, req, uuids, sent,
                   inflight, printed, MainUnused>>

\* lines 28-34
Main_Identity ==
    /\ pc = "resolved"
    /\ repo' = GreptileRepository_new(S_github, S_main, repository)
    /\ repo_id' = as_repo_id(repo')
    /\ pc' = "identified"
    /\ UNCHANGED <<cli, git, env, repository, greptile, req, uuids, sent,
                   inflight, ret, printed, MainUnused>>

\* line 36
Main_FromEnv ==
    /\ pc = "identified"
    /\ \E r \in {from_env(env)} :
           \/ /\ r.kind = "Ok"
              /\ greptile' = r.val
              /\ pc' = "client"
              /\ ret' = ret
           \/ /\ r.kind = "Err"
              /\ pc' = "failed"
              /\ ret' = r
              /\ greptile' = greptile
    /\ UNCHANGED <<cli, git, env, repository, repo, repo_id, req, uuids, sent,
                   inflight, printed, MainUnused>>

\* lines 42-46, up to send(): the request is built and issued
Main_SendQuery ==
    /\ pc = "client"
    /\ uuids' = uuids + 1
    /\ req' = GreptileQueryRequest_new(repo, GreptileMessage_user(PROMPT, Uuid_new_v4(uuids)))
    /\ sent' = Append(sent, QueryRepoRequest(greptile, req'))
    /\ inflight' = inflight + 1
    /\ pc' = "awaiting"
    /\ UNCHANGED <<cli, git, env, repository, repo, repo_id, greptile, ret,
                   printed, MainUnused>>

\* line 46, after send().await: the rest of query_repo, and the ? of main
Main_QueryAnswered ==
    /\ pc = "awaiting"
    /\ \E o \in Outcomes : \E r \in {QueryRepoResult(o)} :
              /\ calls' = Append(calls, [op |-> "query_repo", outcome |-> o, ret |-> r])
              /\ \/ /\ r.kind = "Ok"
                    /\ pc' = "responded"
                    /\ ret' = ret
                 \/ /\ r.kind = "Err"
                    /\ pc' = "failed"
                    /\ ret' = r
    /\ inflight' = inflight - 1
    /\ UNCHANGED <<cli, git, env, repository, repo, repo_id, greptile, req,
                   uuids, sent, printed, prev_req, pushed, built_by>>

\* lines 48-50
Main_Render ==
    /\ pc = "responded"
    /\ printed' = calls[Len(calls)].ret.val
    /\ ret' = Ok("unit")
    /\ pc' = "done"
    /\ UNCHANGED <<cli, git, env, repository, repo, repo_id, greptile, req,
                   uuids, sent, inflight, MainUnused>>

Next ==
    \/ Main_UseArgument
    \/ Main_GetGitRepo
    \/ Main_Identity
    \/ Main_FromEnv
    \/ Main_SendQuery
    \/ Main_QueryAnswered
    \/ Main_Render

Spec == Init /\ [][Next]_vars

----------------------------------------------------------------------------
(* The client operations, called in any order on one client *)

\* "github:main:shuttle-hq/zero-to-production-newsletter-api"
S_newsletter_repo_id ==
    <<"g","i","t","h","u","b",":","m","a","i","n",":","s","h","u","t","t","l","e",
      "-","h","q","/","z","e","r","o","-","t","o","-","p","r","o","d","u","c","t",
      "i","o","n","-","n","e","w","s","l","e","t","t","e","r","-","a","p","i">>

AcmeWidgets == GreptileRepository_new(S_github, S_main, S_acme \o S_slash \o S_widgets)

\* the repo ids check_repo_exists is called with
RepoIds == {as_repo_id(AcmeWidgets), S_newsletter_repo_id}

\* the variables the client operations do not use
ClientUnused ==
    <<cli, git, env, repository, repo, repo_id, req, prev_req, pushed, built_by,
      uuids, inflight, printed>>

ClientInit ==
    /\ pc = "ready"
    /\ greptile \in {GreptileClient_new(gh, gr) : gh \in GithubTokens, gr \in GreptileTokens}
    /\ cli = NoneV
    /\ git = [state |-> "no_repo"]
    /\ env = [GITHUB_ACCESS_TOKEN |-> None, GREPTILE_API_TOKEN |-> None]
    /\ repository = <<>>
    /\ repo = NoneV
    /\ repo_id = <<>>
    /\ req = NoneV
    /\ prev_req = NoneV
    /\ pushed = NoneV
    /\ built_by = None
    /\ uuids = 0
    /\ sent = <<>>
    /\ inflight = 0
    /\ calls = <<>>
    /\ ret = NoneV
    /\ printed = None

\* one operation, from its call to its return: the request it issued, what the
\* network gave back and what it returned; a panic ends the process
Called(op, arg, request, o, r) ==
    /\ pc = "ready"
    /\ Len(calls) < MaxCalls
    /\ sent' = Append(sent, request)
    /\ calls' = Append(calls, [op |-> op, arg |-> arg, outcome |-> o, ret |-> r])
    /\ ret' = r
    /\ pc' = IF r.kind = "Panic" THEN "panicked" ELSE "ready"
    /\ UNCHANGED <<greptile, ClientUnused>>

Client_CheckRepoExists ==
    /\ pc = "ready"
    /\ \E id \in RepoIds, o \in Outcomes :
           Called("check_repo_exists", id, CheckRepoExistsRequest(greptile, id), o,
                  CheckRepoExistsResult(o))

Client_IndexRepo ==
    /\ pc = "ready"
    /\ \E o \in Outcomes :
           Called("index_repo", GreptileIndexRequest_from(AcmeWidgets),
                  IndexRepoRequest(greptile, GreptileIndexRequest_from(AcmeWidgets)), o,
                  IndexRepoResult(o))

Client_QueryRepo ==
    /\ pc = "ready"
    /\ \E o \in Outcomes :
           Called("query_repo",
                  GreptileQueryRequest_new(AcmeWidgets, GreptileMessage_user(PROMPT, Uuid_new_v4(0))),
                  QueryRepoRequest(greptile,
                      GreptileQueryRequest_new(AcmeWidgets, GreptileMessage_user(PROMPT, Uuid_new_v4(0)))),
                  o, QueryRepoResult(o))

ClientNext ==
    \/ Client_CheckRepoExists
    \/ Client_IndexRepo
    \/ Client_QueryRepo

ClientSpec == ClientInit /\ [][ClientNext]_vars

----------------------------------------------------------------------------
(* The query request: its two constructors and push_message *)

Contents == {PROMPT, "hello"}

\* the constructor of GreptileMessage for a role
GreptileMessage_of(role, content, id) ==
    CASE role = "User" -> GreptileMessage_user(content, id)
      [] role = "System" -> GreptileMessage_system(content, id)
      [] role = "Assistant" -> GreptileMessage_assistant(content, id)

\* the repositories a request is built for
Repositories ==
    {GreptileRepository_new(S_github, S_main, a) : a \in ExplicitArgs}

\* the message sequences of length n, their ids drawn in order from Uuid::new_v4
MessageSeqs(n) ==
    {[i \in 1..n |-> GreptileMessage_of(rc[i][1], rc[i][2], Uuid_new_v4(i - 1))] :
        rc \in [1..n -> Roles \X Contents]}

\* the variables the request operations do not use
RequestUnused ==
    <<cli, git, env, repository, repo, repo_id, greptile, sent, inflight, calls,
      ret, printed>>

RequestInit ==
    /\ pc = "no_request"
    /\ greptile = NoneV
    /\ cli = NoneV
    /\ git = [state |-> "no_repo"]
    /\ env = [GITHUB_ACCESS_TOKEN |-> None, GREPTILE_API_TOKEN |-> None]
    /\ repository = <<>>
    /\ repo = NoneV
    /\ repo_id = <<>>
    /\ req = NoneV
    /\ prev_req = NoneV
    /\ pushed = NoneV
    /\ built_by = None
    /\ uuids = 0
    /\ sent = <<>>
    /\ inflight = 0
    /\ calls = <<>>
    /\ ret = NoneV
    /\ printed = None

Request_New ==
    /\ pc = "no_request"
    /\ \E r \in Repositories, role \in Roles, content \in Contents :
          req' = GreptileQueryRequest_new(r, GreptileMessage_of(role, content, Uuid_new_v4(uuids)))
    /\ uuids' = uuids + 1
    /\ built_by' = "new"
    /\ pc' = "built"
    /\ UNCHANGED <<prev_req, pushed, RequestUnused>>

Request_WithMessages ==
    /\ pc = "no_request"
    /\ \E r \in Repositories, n \in 0..MaxInitial :
          \E messages \in MessageSeqs(n) :
              /\ req' = GreptileQueryRequest_with_messages(r, messages)
              /\ uuids' = uuids + n
    /\ built_by' = "with_messages"
    /\ pc' = "built"
    /\ UNCHANGED <<prev_req, pushed, RequestUnused>>

Request_PushMessage ==
    /\ pc = "built"
    /\ Len(req.messages) < MaxMessages
    /\ \E role \in Roles, content \in Contents :
          /\ pushed' = Some(GreptileMessage_of(role, content, Uuid_new_v4(uuids)))
          /\ req' = push_message(req, pushed'.val)
    /\ prev_req' = req
    /\ uuids' = uuids + 1
    /\ UNCHANGED <<pc, built_by, RequestUnused>>

RequestNext ==
    \/ Request_New
    \/ Request_WithMessages
    \/ Request_PushMessage

RequestSpec == RequestInit /\ [][RequestNext]_vars

----------------------------------------------------------------------------
(* Properties *)

\* the calls of ClientSpec made so far, by position in calls and in sent
CallIndices == 1..Len(calls)

\* a response arrived, its status is not 200 and its body text was read
Rejected(o) ==
    o.kind = "response" /\ o.status # 200 /\ o.body # BodyError

\* C1: for every response whose status is not 200, index_repo and query_repo
\* both return an error that carries the response body text, never Ok.
C1_NonOkStatusIsAnError ==
    \A i \in CallIndices :
        (calls[i].op \in {"index_repo", "query_repo"} /\ Rejected(calls[i].outcome))
        => /\ calls[i].ret.kind = "Err"
           /\ calls[i].ret.text = calls[i].outcome.body

\* C2: check_repo_exists returns Ok(true) for status 200, Ok(false) for any
\* other status, and an error only when no response was received; a failed
\* send() is never turned into Ok(false).
C2_ExistenceCheckMapsStatusToBool ==
    \A i \in CallIndices :
        calls[i].op = "check_repo_exists"
        => /\ calls[i].outcome.kind = "response"
              => /\ calls[i].ret.kind = "Ok"
                 /\ calls[i].ret.val = (calls[i].outcome.status = 200)
           /\ calls[i].outcome.kind = "send_err"
              => calls[i].ret.kind = "Err"

\* C2's case: one existence check answered with a non-200 status returned
\* Ok(false), and another whose send() failed returned an error
C2_Witness ==
    \E i, j \in CallIndices :
        /\ calls[i].op = "check_repo_exists"
        /\ calls[i].outcome.kind = "response"
        /\ calls[i].outcome.status = 404
        /\ calls[i].ret.kind = "Ok"
        /\ calls[i].ret.val = FALSE
        /\ calls[j].op = "check_repo_exists"
        /\ calls[j].outcome.kind = "send_err"
        /\ calls[j].ret.kind = "Err"

S_https_prefix == S_http \o S_s \o S_colon_slashes

\* the run took the origin remote's URL and resolution is over
ResolvedFromOrigin ==
    pc # "start" /\ ~cli.some /\ git.state = "url"

\* C3: with no argument and an origin URL https://(www.)?github.com/<owner>/<name>.git,
\* get_git_repo returns exactly <owner>/<name>: no scheme, no host, no .git.
C3_ResolverReturnsOwnerAndName ==
    \A www \in UrlWww, owner \in UrlOwners, name \in UrlNames :
        (/\ ResolvedFromOrigin
         /\ git.url = S_https_prefix \o www \o S_github_com \o S_slash
                        \o owner \o S_slash \o name \o S_dot_git)
        => repository = owner \o S_slash \o name

\* the whole URL is http(s)://(www.)?github.com/<owner>/<name>.git
RecognizedShape(url) ==
    \E scheme \in {S_https_prefix, S_http \o S_colon_slashes}, www \in UrlWww,
       owner \in UrlOwners, name \in UrlNames :
        url = scheme \o www \o S_github_com \o S_slash \o owner \o S_slash
                \o name \o S_dot_git

\* C4: for every origin URL that is not the full recognized shape, get_git_repo
\* returns an error value: no repository string, no panic, and neither the
\* client nor a network call follows.
C4_UnrecognizedUrlIsAnError ==
    (ResolvedFromOrigin /\ ~RecognizedShape(git.url))
    => /\ pc = "failed"
       /\ ret.kind = "Err"
       /\ repository = <<>>
       /\ greptile = NoneV
       /\ sent = <<>>

MissingCredential ==
    env.GITHUB_ACCESS_TOKEN = None \/ env.GREPTILE_API_TOKEN = None

\* the variable from_env finds unset first
FirstMissing ==
    IF env.GITHUB_ACCESS_TOKEN = None THEN "GITHUB_ACCESS_TOKEN"
    ELSE "GREPTILE_API_TOKEN"

\* from_env() was called: the identity was built and main has moved on
FromEnvCalled ==
    pc \in {"client", "awaiting", "responded", "done", "failed"} /\ repo # NoneV

S_github_main_prefix == <<"g","i","t","h","u","b",":","m","a","i","n",":">>

C7_PushMessageAppends ==
    pushed.some
    => /\ Len(req.messages) = Len(prev_req.messages) + 1
       /\ \A i \in 1..Len(prev_req.messages) : req.messages[i] = prev_req.messages[i]
       /\ req.messages[Len(req.messages)] = pushed.val
       /\ req.repositories = prev_req.repositories
       /\ req.session_id = prev_req.session_id
       /\ req.stream = prev_req.stream
       /\ req.genius = prev_req.genius

\* C7's case: a message appended to a request with_messages built from two
C7_Witness ==
    /\ pushed.some
    /\ built_by = "with_messages"
    /\ Len(prev_req.messages) = 2
    /\ Len(req.messages) = 3
    /\ prev_req.messages[1].id # prev_req.messages[2].id

RECURSIVE PercentEncode(_)
\* percent-encoding of the characters a repo id holds besides [\w.-]
PercentEncode(str) ==
    IF str = <<>> THEN <<>>
    ELSE (CASE Head(str) = ":" -> <<"%","3","A">>
            [] Head(str) = "/" -> <<"%","2","F">>
            [] Head(str) = "%" -> <<"%","2","5">>
            [] OTHER -> <<Head(str)>>) \o PercentEncode(Tail(str))

\* the URL that addresses the repository id names, as the literal of
\* check_repo_exists addresses the one it was written for
UrlOfRepoId(id) == S_repositories_url \o PercentEncode(PercentEncode(id))

\* C8: the existence check is keyed by repo_id: the request addresses the
\* repository repo_id names, so two repo ids get two different URLs.
C8_ExistenceCheckKeyedByRepoId ==
    \A i, j \in CallIndices :
        (calls[i].op = "check_repo_exists" /\ calls[j].op = "check_repo_exists")
        => /\ sent[i].url = UrlOfRepoId(calls[i].arg)
           /\ calls[i].arg # calls[j].arg => sent[i].url # sent[j].url

HasBearer(request) ==
    bearer_auth(greptile.greptile_api_token) \in request.headers

HasGithubToken(request) ==
    <<"X-Github-Token", greptile.github_token>> \in request.headers

\* C9, as claimed: every request of the three operations carries the bearer
\* authentication of the service token and the X-Github-Token header of the
\* source-control token.
C9_EveryRequestCarriesBothTokens ==
    \A i \in CallIndices : HasBearer(sent[i]) /\ HasGithubToken(sent[i])

\* C9, amended: every request carries the bearer authentication of the
\* service token; index_repo's and query_repo's also carry X-Github-Token with
\* the source-control token; check_repo_exists's carries no X-Github-Token.
C9_TokensPerOperation ==
    \A i \in CallIndices :
        /\ HasBearer(sent[i])
        /\ \A h \in sent[i].headers :
              h[1] = "Authorization" => h = bearer_auth(greptile.greptile_api_token)
        /\ calls[i].op \in {"index_repo", "query_repo"} => HasGithubToken(sent[i])
        /\ calls[i].op = "check_repo_exists"
           => \A h \in sent[i].headers : h[1] # "X-Github-Token"

\* C9's case: an existence check and a query were both issued
C9_Witness ==
    /\ Len(calls) = 2
    /\ calls[1].op = "check_repo_exists"
    /\ calls[2].op = "query_repo"
    /\ Len(sent) = 2

\* the remote call of main failed: no response, a body that could not be
\* read, or a status that is not 200
RemoteCallFailed ==
    /\ calls # <<>>
    /\ \/ calls[1].outcome.kind = "send_err"
       \/ calls[1].outcome.status # 200
       \/ calls[1].outcome.body = BodyError

\* C10: at most one network call is in flight, none is issued twice, and once
\* resolution, credential loading or the remote call has failed the run ends
\* with that failure: no further call, no answer rendered.
C10_FailureEndsTheRun ==
    /\ inflight <= 1
    /\ Len(sent) <= 1
    /\ pc \in {"failed", "panicked"} => inflight = 0 /\ printed = None
    /\ pc = "failed" => ret.kind = "Err"
    /\ RemoteCallFailed => pc = "failed" /\ printed = None

============================================================================
